---- MODULE Spec2Model ----
(***************************************************************************)
(* A model of parseCSV (csv_to_html/script.js and csv_to_wpblock/script.js), *)
(* the hand-written CSV scanner of the converters.  One action per branch  *)
(* of the scan loop, one for the code after the loop, one for a new call.  *)
(* Strings are sequences of one-character strings.                         *)
(***************************************************************************)
EXTENDS Integers, Sequences, FiniteSets, TLC

\* ------------------------------------------------------------------ bounds
\* longest input of a single call
MaxLen == 5
\* longest input of a call checked for termination
MaxFairLen == 4
\* longest input in a sequence of calls
MaxCallLen == 3
\* calls in a sequence
MaxCalls == 2

\* -------------------------------------------------------------- characters
QUOTE == "\""
COMMA == ","
LF == "\n"
CR == "\r"
SPACE == " "
LETTER == "a"

\* csvText[k] for k >= csvText.length
Undefined == "undefined"

Chars == {LETTER, SPACE, COMMA, QUOTE, LF, CR}

\* the characters of the alphabet that String.prototype.trim removes
Whitespace == {SPACE, LF, CR}

TextsUpTo(m) == UNION {[1..n -> Chars] : n \in 0..m}

\* csvText[k], k counted from 0 as in the code
CharAt(text, k) == IF k >= 0 /\ k < Len(text) THEN text[k + 1] ELSE Undefined

\* --------------------------------------------------- String.prototype.trim
RECURSIVE TrimStart(_)
TrimStart(s) ==
  IF s = <<>> THEN s
  ELSE IF Head(s) \in Whitespace THEN TrimStart(Tail(s)) ELSE s

RECURSIVE TrimEnd(_)
TrimEnd(s) ==
  IF s = <<>> THEN s
  ELSE IF s[Len(s)] \in Whitespace THEN TrimEnd(SubSeq(s, 1, Len(s) - 1)) ELSE s

Trim_startOnly(s) == TrimStart(s)

Trim(s) == TrimEnd(TrimStart(s))

\* ------------------------------------------------------ the scan loop body
IsQuote_atFieldStart(char, field, inQuotes) ==
  char = QUOTE /\ (inQuotes \/ field = <<>>)

\* if (char === '"'): at any position of the field
IsQuote(char, field, inQuotes) == char = QUOTE

IsEscapedQuote_anyMode(char, nextChar, inQuotes) ==
  char = QUOTE /\ nextChar = QUOTE

\* if (char === '"') { if (insideQuotes && nextChar === '"')
IsEscapedQuote(char, nextChar, inQuotes) ==
  char = QUOTE /\ inQuotes /\ nextChar = QUOTE

IsFieldEnd_anyMode(char, inQuotes) == char = COMMA

\* else if (char === ',' && !insideQuotes)
IsFieldEnd(char, inQuotes) == char = COMMA /\ ~inQuotes

IsRowEnd_onlyLF(char, inQuotes) == char = LF /\ ~inQuotes

\* else if ((char === '\n' || char === '\r') && !insideQuotes)
IsRowEnd(char, inQuotes) == (char = LF \/ char = CR) /\ ~inQuotes

SkipLF_never(char, nextChar) == 0

\* if (char === '\r' && nextChar === '\n') i++
SkipLF(char, nextChar) == IF char = CR /\ nextChar = LF THEN 1 ELSE 0

HasPending_never(field, row) == FALSE

HasPending_rowOnly(field, row) == Len(row) > 0

\* if (currentField || currentRow.length > 0)
HasPending(field, row) == field # <<>> \/ Len(row) > 0

FinishRow_dropsField(row, field) == row

\* currentRow.push(currentField.trim())
FinishRow(row, field) == Append(row, Trim(field))

Advance_noIncrement(idx, skipped) == idx + skipped

\* the loop's i++ after the i++ of the body, if any
Advance(idx, skipped) == idx + skipped + 1

\* which branch of the if/else chain the loop body takes
Branch(L, text) ==
  LET char == CharAt(text, L.i)
      nextChar == CharAt(text, L.i + 1)
  IN IF IsQuote(char, L.currentField, L.insideQuotes)
       THEN IF IsEscapedQuote(char, nextChar, L.insideQuotes)
              THEN "escaped" ELSE "toggle"
       ELSE IF IsFieldEnd(char, L.insideQuotes) THEN "field"
       ELSE IF IsRowEnd(char, L.insideQuotes) THEN "row"
       ELSE "char"

\* one iteration of the for loop on the locals L
Step(L, text) ==
  LET char == CharAt(text, L.i)
      nextChar == CharAt(text, L.i + 1)
      b == Branch(L, text)
  IN CASE b = "escaped" ->
            [L EXCEPT !.currentField = Append(@, QUOTE), !.i = Advance(@, 1)]
       [] b = "toggle" ->
            [L EXCEPT !.insideQuotes = ~@, !.i = Advance(@, 0)]
       [] b = "field" ->
            [L EXCEPT !.currentRow = FinishRow(@, L.currentField),
                      !.currentField = <<>>,
                      !.i = Advance(@, 0)]
       [] b = "row" ->
            IF HasPending(L.currentField, L.currentRow)
              THEN [L EXCEPT !.rows = Append(@, FinishRow(L.currentRow, L.currentField)),
                             !.currentRow = <<>>,
                             !.currentField = <<>>,
                             !.i = Advance(@, SkipLF(char, nextChar))]
              ELSE [L EXCEPT !.i = Advance(@, SkipLF(char, nextChar))]
       [] OTHER ->
            [L EXCEPT !.currentField = Append(@, char), !.i = Advance(@, 0)]

\* the code after the loop: "Handle last field/row"
LastRow_dropsPending(L) == L

LastRow_unlessInQuotes(L) ==
  IF ~L.insideQuotes /\ HasPending(L.currentField, L.currentRow)
    THEN [L EXCEPT !.currentRow = FinishRow(@, L.currentField),
                   !.rows = Append(@, FinishRow(L.currentRow, L.currentField))]
    ELSE L

LastRow(L) ==
  IF HasPending(L.currentField, L.currentRow)
    THEN [L EXCEPT !.currentRow = FinishRow(@, L.currentField),
                   !.rows = Append(@, FinishRow(L.currentRow, L.currentField))]
    ELSE L

\* row.some(cell => cell !== '')
SomeCell_anyCell(row) == Len(row) > 0

SomeCell_everyCell(row) == \A k \in 1..Len(row) : row[k] # <<>>

SomeCell(row) == \E k \in 1..Len(row) : row[k] # <<>>

FilterRows_keepAll(rs) == rs

\* rows.filter(row => row.some(cell => cell !== ''))
FilterRows(rs) == SelectSeq(rs, SomeCell)

\* ------------------------------------------------------------------- state
VARIABLES
  csvText,        \* the argument of the running (or last) call
  i,              \* the loop index, counted from 0
  rows,
  currentRow,
  currentField,
  insideQuotes,
  pc,             \* "scan": in the loop or just after it; "done": returned
  result,         \* the value returned by this call, <<>> until it returns
  calls,          \* history: number of calls started
  repeat,         \* history: this call's text is the previous call's text
  prevResult,     \* history: the previous call's result, when repeat
  prevOpenQuote,  \* history: the previous call ended with insideQuotes
  segStart,       \* history: position (from 1) where the pending row began
  segs,           \* history: <<first, last>> input positions of each row of rows
  data,           \* the table handed to a renderer
  options,        \* the options handed to a renderer
  rendered,       \* what the renderer returned, and which renderer
  config,         \* the page: which converter, which elements exist, tableOptions
  inputValue,     \* input.value at the last submit
  output,         \* the content of the output element
  secondary,      \* the content of the code (html) or preview (wp) element
  parserCalled,   \* history: the last submit called parseCSV
  shown,          \* history: some submit has put a result into output
  textContent,    \* copyButton.textContent
  copied,         \* copyButton.classList contains 'copied'
  writes,         \* clipboard writes not yet settled
  timers,         \* the pending setTimeout callbacks, oldest first
  clicks          \* history: number of clicks on the copy button

parserVars ==
  <<csvText, i, rows, currentRow, currentField, insideQuotes, pc, result,
    calls, repeat, prevResult, prevOpenQuote, segStart, segs>>

renderVars == <<data, options, rendered>>

submitVars == <<config, inputValue, output, secondary, parserCalled, shown>>

copyVars == <<textContent, copied, writes, timers, clicks>>

vars == <<parserVars, renderVars, submitVars, copyVars>>

\* null, as returned by a renderer and as tested by the handlers
Null == [isNull |-> TRUE]

\* an element without content (innerHTML = '')
NoContent == [kind |-> "empty"]

\* no renderer has been called
RenderIdle ==
  /\ data = <<>>
  /\ options = <<>>
  /\ rendered = [by |-> "none", value |-> Null]

\* no page is loaded
SubmitIdle ==
  /\ config = <<>>
  /\ inputValue = <<>>
  /\ output = NoContent
  /\ secondary = NoContent
  /\ parserCalled = FALSE
  /\ shown = FALSE

\* no copy button exists
CopyIdle ==
  /\ textContent = ""
  /\ copied = FALSE
  /\ writes = 0
  /\ timers = <<>>
  /\ clicks = 0

\* the locals as declared at the top of parseCSV, and the loop's let i = 0
Fresh_keepsQuoteMode ==
  [i |-> 0, rows |-> <<>>, currentRow |-> <<>>, currentField |-> <<>>,
   insideQuotes |-> insideQuotes]

Fresh ==
  [i |-> 0, rows |-> <<>>, currentRow |-> <<>>, currentField |-> <<>>,
   insideQuotes |-> FALSE]

RECURSIVE Scan(_, _)
Scan(L, text) == IF L.i < Len(text) THEN Scan(Step(L, text), text) ELSE L

\* parseCSV as a function of its argument
ParseCSV(text) == FilterRows(LastRow(Scan(Fresh, text)).rows)

hist == <<calls, repeat, prevResult, prevOpenQuote>>

Locals ==
  [i |-> i, rows |-> rows, currentRow |-> currentRow,
   currentField |-> currentField, insideQuotes |-> insideQuotes]

SetLocals(L) ==
  /\ i' = L.i
  /\ rows' = L.rows
  /\ currentRow' = L.currentRow
  /\ currentField' = L.currentField
  /\ insideQuotes' = L.insideQuotes

Start(texts) ==
  /\ csvText \in texts
  /\ i = 0
  /\ rows = <<>>
  /\ currentRow = <<>>
  /\ currentField = <<>>
  /\ insideQuotes = FALSE
  /\ pc = "scan"
  /\ result = <<>>
  /\ calls = 1
  /\ repeat = FALSE
  /\ prevResult = <<>>
  /\ prevOpenQuote = FALSE
  /\ segStart = 1
  /\ segs = <<>>

Init == Start(TextsUpTo(MaxLen)) /\ RenderIdle /\ SubmitIdle /\ CopyIdle

InitFair == Start(TextsUpTo(MaxFairLen)) /\ RenderIdle /\ SubmitIdle /\ CopyIdle

InitCalls == Start(TextsUpTo(MaxCallLen)) /\ RenderIdle /\ SubmitIdle /\ CopyIdle

InLoop(b) == pc = "scan" /\ i < Len(csvText) /\ Branch(Locals, csvText) = b

LoopStep ==
  /\ SetLocals(Step(Locals, csvText))
  /\ UNCHANGED <<csvText, pc, result, hist, renderVars, submitVars, copyVars>>

EscapedQuote ==
  /\ InLoop("escaped")
  /\ LoopStep
  /\ UNCHANGED <<segStart, segs>>

ToggleQuote ==
  /\ InLoop("toggle")
  /\ LoopStep
  /\ UNCHANGED <<segStart, segs>>

EndField ==
  /\ InLoop("field")
  /\ LoopStep
  /\ UNCHANGED <<segStart, segs>>

EndRow ==
  /\ InLoop("row")
  /\ LoopStep
  /\ segStart' = i' + 1
  /\ segs' = IF Len(rows') > Len(rows) THEN Append(segs, <<segStart, i>>) ELSE segs

AppendChar ==
  /\ InLoop("char")
  /\ LoopStep
  /\ UNCHANGED <<segStart, segs>>

Return ==
  /\ pc = "scan"
  /\ i >= Len(csvText)
  /\ SetLocals(LastRow(Locals))
  /\ result' = FilterRows(rows')
  /\ pc' = "done"
  /\ segs' = IF Len(rows') > Len(rows) THEN Append(segs, <<segStart, Len(csvText)>>) ELSE segs
  /\ UNCHANGED <<csvText, hist, segStart, renderVars, submitVars, copyVars>>

Call ==
  /\ pc = "done"
  /\ calls < MaxCalls
  /\ \E t \in TextsUpTo(MaxCallLen) :
       /\ csvText' = t
       /\ repeat' = (t = csvText)
       /\ prevResult' = IF t = csvText THEN result ELSE <<>>
  /\ prevOpenQuote' = insideQuotes
  /\ SetLocals(Fresh)
  /\ pc' = "scan"
  /\ calls' = calls + 1
  /\ segStart' = 1
  /\ segs' = <<>>
  /\ result' = <<>>
  /\ UNCHANGED <<renderVars, submitVars, copyVars>>

Next ==
  \/ EscapedQuote
  \/ ToggleQuote
  \/ EndField
  \/ EndRow
  \/ AppendChar
  \/ Return

\* one call of parseCSV on any input
Spec == Init /\ [][Next]_vars

\* the loop is synchronous code: an enabled step is taken
FairSpec == InitFair /\ [][Next]_vars /\ WF_vars(Next)

NextCalls ==
  \/ Next
  \/ Call

\* a sequence of calls of parseCSV
SpecCalls == InitCalls /\ [][NextCalls]_vars

\* ------------------------------------------------- notions the claims use
Terminators == {LF, CR}

CharsOf(s) == {s[k] : k \in 1..Len(s)}

\* number of positions of s, among the first n, that hold character c
CountIn(s, c, n) == Cardinality({k \in 1..n : k <= Len(s) /\ s[k] = c})

Last(s) == s[Len(s)]

\* the character the loop is about to read, and the one after it
Char == CharAt(csvText, i)

NextChar == CharAt(csvText, i + 1)

Scanning == pc = "scan" /\ i < Len(csvText)

\* a table: a sequence of rows, each a sequence of cells, each a string
IsTable(t) == t \in Seq(Seq(Seq(Chars)))

\* C1: parseCSV terminates on every input and returns a table: every loop
\* step moves the index forward by 1 or 2 and never past the end of the
\* text, the code after the loop returns, and under the loop's own
\* scheduling the call reaches its return.
C1_Terminates ==
  /\ [](i >= 0 /\ i <= Len(csvText))
  /\ [](pc = "done" => IsTable(result))
  /\ [][Scanning => i' \in {i + 1, i + 2} /\ i' <= Len(csvText) /\ pc' = "scan"]_vars
  /\ [][pc = "scan" /\ ~Scanning => pc' = "done" /\ IsTable(result')]_vars
  /\ <>(pc = "done")

\* a full-length input with an unmatched quote has been parsed to a table
C1_Witness ==
  /\ pc = "done"
  /\ insideQuotes
  /\ Len(csvText) >= 4
  /\ Len(result) >= 1

AllEmpty(row) == \A k \in 1..Len(row) : row[k] = <<>>

\* C2: the returned table has no row whose cells are all empty, and no row
\* without cells.
C2_NoBlankRow ==
  pc = "done" => \A r \in 1..Len(result) : Len(result[r]) > 0 /\ ~AllEmpty(result[r])

\* the scan built a row of only empty cells next to a row that is kept
C2_Witness ==
  /\ pc = "done"
  /\ Len(result) >= 1
  /\ \E r \in 1..Len(rows) : AllEmpty(rows[r]) /\ Len(rows[r]) >= 2

Trimmed(c) == c = <<>> \/ (Head(c) \notin Whitespace /\ Last(c) \notin Whitespace)

AllTrimmed(rs) == \A r \in 1..Len(rs) : \A k \in 1..Len(rs[r]) : Trimmed(rs[r][k])

\* c is f without a prefix and a suffix of whitespace, the inside of f kept
IsTrimOf(c, f) ==
  /\ Trimmed(c)
  /\ \E p \in 0..Len(f) : \E q \in 0..(Len(f) - p) :
       /\ c = SubSeq(f, p + 1, Len(f) - q)
       /\ \A k \in 1..p : f[k] \in Whitespace
       /\ \A k \in (Len(f) - q + 1)..Len(f) : f[k] \in Whitespace

\* C3: no cell of the table begins or ends with whitespace, quoted or not,
\* and a cell is its field with only the outer whitespace removed.
C3_CellsTrimmed ==
  /\ [](AllTrimmed(rows) /\ AllTrimmed(<<currentRow>>) /\ AllTrimmed(result))
  /\ [][Len(rows') > Len(rows) => IsTrimOf(Last(Last(rows')), currentField)]_vars
  /\ [][Len(currentRow') > Len(currentRow) => IsTrimOf(Last(currentRow'), currentField)]_vars

\* a quoted field with whitespace at an edge and inside became the cell "a a"
C3_Witness ==
  /\ pc = "done"
  /\ QUOTE \in CharsOf(csvText)
  /\ currentField # <<>>
  /\ Last(currentField) \in Whitespace
  /\ result = << << <<LETTER, SPACE, LETTER>> >> >>

\* C4: in quote-mode no step ends a field or a row; a comma or a line
\* terminator read there is appended to currentField.
C4_QuoteModeKeepsSeparators ==
  /\ [][Scanning /\ insideQuotes => UNCHANGED <<currentRow, rows>>]_vars
  /\ [][Scanning /\ insideQuotes /\ Char \in {COMMA, LF, CR}
          => currentField' = Append(currentField, Char) /\ insideQuotes']_vars

\* a closed quoted field holding a comma and a terminator ended as one cell
C4_Witness ==
  /\ pc = "done"
  /\ ~insideQuotes
  /\ Len(result) = 1
  /\ Len(result[1]) = 1
  /\ {COMMA, LF} \subseteq CharsOf(result[1][1])

NoQuoteIn(rs) == \A r \in 1..Len(rs) : \A k \in 1..Len(rs[r]) : QUOTE \notin CharsOf(rs[r][k])

\* quote characters copied so far into the field, the row and the rows
QuotesOut ==
  CountIn(currentField, QUOTE, Len(currentField))
  + Cardinality({<<r, k, j>> \in (1..Len(rows)) \X (1..Len(csvText) + 1) \X (1..Len(csvText)) :
                   k <= Len(rows[r]) /\ j <= Len(rows[r][k]) /\ rows[r][k][j] = QUOTE})
  + Cardinality({<<k, j>> \in (1..Len(currentRow)) \X (1..Len(csvText)) :
                   j <= Len(currentRow[k]) /\ currentRow[k][j] = QUOTE})

NoAdjacentQuotes(text) == \A k \in 1..(Len(text) - 1) : ~(text[k] = QUOTE /\ text[k + 1] = QUOTE)

\* C5: a quote reaches the field only by the escaped-quote step (quote-mode,
\* two adjacent quotes, both consumed); any other quote only toggles
\* quote-mode; so every quote in a cell stands for a pair of input quotes
\* read after an opening quote, and an input without adjacent quotes gives
\* cells without quotes.
C5_QuoteOnlyByEscape ==
  /\ [][CountIn(currentField', QUOTE, Len(currentField')) > CountIn(currentField, QUOTE, Len(currentField))
          => /\ Scanning /\ insideQuotes /\ insideQuotes'
             /\ Char = QUOTE /\ NextChar = QUOTE
             /\ currentField' = Append(currentField, QUOTE)
             /\ i' = i + 2]_vars
  /\ [][Scanning /\ Char = QUOTE /\ ~(insideQuotes /\ NextChar = QUOTE)
          => /\ insideQuotes' = ~insideQuotes
             /\ i' = i + 1
             /\ UNCHANGED <<currentField, currentRow, rows>>]_vars
  /\ [](pc = "scan" /\ QuotesOut > 0 => 2 * QuotesOut + 1 <= CountIn(csvText, QUOTE, i))
  /\ [](pc = "done" /\ NoAdjacentQuotes(csvText) => NoQuoteIn(result))

\* an escaped pair inside a quoted field left one quote in the cell
C5_Witness ==
  /\ pc = "done"
  /\ result = << << <<LETTER, QUOTE, LETTER>> >> >>

\* text with the n characters from position p on replaced by the string r
ReplaceAt(text, p, n, r) == SubSeq(text, 1, p - 1) \o r \o SubSeq(text, p + n, Len(text))

\* the line terminator the loop is about to read outside quote-mode: one
\* character, or the two of a "\r\n" pair
TerminatorLen == IF Char = CR /\ NextChar = LF THEN 2 ELSE 1

AtTerminator == Scanning /\ ~insideQuotes /\ Char \in Terminators

\* C6: writing any line terminator read outside quote-mode as "\n", "\r" or
\* "\r\n" gives the same table; in particular "\r\n" counts as one
\* terminator and adds no row.
C6_LineEndingsInterchangeable ==
  AtTerminator =>
    \A r \in {<<LF>>, <<CR>>, <<CR, LF>>} :
      ParseCSV(ReplaceAt(csvText, i + 1, TerminatorLen, r)) = ParseCSV(csvText)

\* the loop is at a "\r\n" pair that ends a row, with more text after it
C6_Witness ==
  /\ AtTerminator
  /\ TerminatorLen = 2
  /\ currentField # <<>>
  /\ Len(currentRow) >= 1
  /\ i + 2 < Len(csvText)
  /\ Len(ParseCSV(csvText)) = 2

\* C7: the empty text and every text of only whitespace and line
\* terminators give the empty table.
C7_BlankInputEmptyTable ==
  pc = "done" /\ CharsOf(csvText) \subseteq Whitespace => result = <<>>

\* a text of spaces and terminators whose lines the scan had stored as rows
C7_Witness ==
  /\ pc = "done"
  /\ {SPACE, LF} \subseteq CharsOf(csvText)
  /\ CharsOf(csvText) \subseteq Whitespace
  /\ Len(rows) >= 2
  /\ result = <<>>

\* position k of the text lies outside quotes: an even number of quote
\* characters precede it
OutsideQuotes(k) == CountIn(csvText, QUOTE, k - 1) % 2 = 0

\* commas outside quotes among the positions seg[1]..seg[2] of the text
CommasIn(seg) ==
  Cardinality({k \in seg[1]..seg[2] : csvText[k] = COMMA /\ OutsideQuotes(k)})

\* the indices of the rows of rs that the returned table keeps, in order
KeptRows(rs) == SelectSeq([r \in 1..Len(rs) |-> r], LAMBDA r : ~AllEmpty(rs[r]))

\* C8: every row has 1 + (commas outside quotes in its part of the text)
\* cells, in rows and in the returned table alike: rows are neither padded
\* nor cut to a common length.
C8_RowLengthAsParsed ==
  /\ Len(segs) = Len(rows)
  /\ \A r \in 1..Len(rows) : Len(rows[r]) = 1 + CommasIn(segs[r])
  /\ pc = "done" =>
       /\ Len(result) = Len(KeptRows(rows))
       /\ \A j \in 1..Len(result) : Len(result[j]) = 1 + CommasIn(segs[KeptRows(rows)[j]])

\* a returned table of two rows of different lengths, from a text with a
\* comma inside quotes
C8_Witness ==
  /\ pc = "done"
  /\ Len(result) = 2
  /\ Len(result[1]) # Len(result[2])
  /\ CountIn(csvText, COMMA, Len(csvText)) > CommasIn(<<1, Len(csvText)>>)

CellsOf(t) == {t[r][k] : <<r, k>> \in {x \in (1..Len(t)) \X (1..Len(csvText) + 1) : x[2] <= Len(t[x[1]])}}

\* re-parsing c gives the one-row, one-cell table of c
Reparses(c) == ParseCSV(c) = << <<c>> >>

Separators == {COMMA, QUOTE, LF, CR}

\* C9 as stated: every non-empty cell of a returned table re-parses to itself.
C9_Original ==
  pc = "done" => \A c \in CellsOf(result) : c # <<>> => Reparses(c)

\* C9: every non-empty cell of a returned table that holds no comma, no
\* quote and no line terminator re-parses to the one-row, one-cell table of
\* that cell.
C9_PlainCellReparses ==
  pc = "done" =>
    \A c \in CellsOf(result) : c # <<>> /\ CharsOf(c) \cap Separators = {} => Reparses(c)

\* a cell with a space inside, cut from a field with whitespace at both
\* ends, re-parsed
C9_Witness ==
  /\ pc = "done"
  /\ csvText # <<>>
  /\ Head(csvText) = SPACE
  /\ Last(csvText) = SPACE
  /\ <<LETTER, SPACE, LETTER>> \in CellsOf(result)
  /\ Reparses(<<LETTER, SPACE, LETTER>>)

\* C10: a call starts from empty rows, currentRow and currentField and
\* outside quote-mode whatever the call before left, and a call on the text
\* of the call before returns the table that call returned.
C10_NoStateBetweenCalls ==
  /\ pc = "scan" /\ i = 0 =>
       rows = <<>> /\ currentRow = <<>> /\ currentField = <<>> /\ ~insideQuotes
  /\ pc = "done" /\ repeat => result = prevResult

\* the second of two calls on a text with an unmatched quote and a comma
\* has returned
C10_Witness ==
  /\ pc = "done"
  /\ calls >= 2
  /\ repeat
  /\ prevOpenQuote
  /\ COMMA \in CharsOf(csvText)
  /\ Len(result) >= 1

\* C12: a line terminator read outside quote-mode ends a row exactly when
\* currentField is non-empty (untrimmed) or currentRow holds a cell: then
\* the trimmed field joins the row, the row joins rows, and currentRow and
\* currentField are emptied; otherwise rows, currentRow and currentField
\* stay as they are.
C12_TerminatorEndsPendingRow ==
  [][AtTerminator =>
       IF currentField # <<>> \/ Len(currentRow) >= 1
         THEN /\ Len(rows') = Len(rows) + 1
              /\ SubSeq(rows', 1, Len(rows)) = rows
              /\ Len(Last(rows')) = Len(currentRow) + 1
              /\ SubSeq(Last(rows'), 1, Len(currentRow)) = currentRow
              /\ IsTrimOf(Last(Last(rows')), currentField)
              /\ currentRow' = <<>>
              /\ currentField' = <<>>
         ELSE UNCHANGED <<rows, currentRow, currentField>>]_vars

\* a terminator has ended a one-cell row and the terminator right after it
\* has been read without adding a row
C12_Witness ==
  /\ pc = "scan"
  /\ i >= 3
  /\ ~insideQuotes
  /\ csvText[i] \in Terminators
  /\ csvText[i - 1] = LF
  /\ Len(rows) = 1
  /\ Len(rows[1]) = 1
  /\ currentRow = <<>>
  /\ currentField = <<>>

\* C13: for a text whose scan ends outside quote-mode, the returned table is
\* the table of the text with "\n" appended: the last row needs no
\* terminator and a final terminator adds no row.
C13_EndOfInputLikeTerminator ==
  pc = "done" /\ ~insideQuotes => result = ParseCSV(Append(csvText, LF))

\* a text that ends in an unterminated row of two cells has returned
C13_Witness ==
  /\ pc = "done"
  /\ ~insideQuotes
  /\ csvText # <<>>
  /\ Last(csvText) \notin Terminators
  /\ Len(result) = 2
  /\ Len(result[2]) = 2

\* the position of the last quote character among the first n of the text,
\* 0 if there is none
LastQuoteIn(n) ==
  LET qs == {k \in 1..n : csvText[k] = QUOTE}
  IN IF qs = {} THEN 0 ELSE CHOOSE k \in qs : \A j \in qs : j <= k

IsSuffix(s, f) == Len(s) <= Len(f) /\ SubSeq(f, Len(f) - Len(s) + 1, Len(f)) = s

\* C14: a scan that ends in quote-mode still returns a table; while
\* quote-mode stays open every character read, commas and terminators
\* included, goes to the one current field (an escaped pair as one quote)
\* and no field or row is ended, so what follows the last quote character
\* is in currentField as written; at the end of the text the trimmed field
\* becomes the last cell of the last row whenever the field is non-empty or
\* the row holds a cell, quote-mode or not.
C14_UnmatchedQuote ==
  /\ [](pc = "done" /\ insideQuotes => IsTable(result))
  /\ [](insideQuotes => IsSuffix(SubSeq(csvText, LastQuoteIn(i) + 1, i), currentField))
  /\ [][Scanning /\ insideQuotes /\ insideQuotes'
          => /\ currentField' = Append(currentField, Char)
             /\ UNCHANGED <<rows, currentRow>>]_vars
  /\ [][pc = "scan" /\ ~Scanning /\ insideQuotes
          => /\ pc' = "done"
             /\ insideQuotes'
             /\ IF currentField # <<>> \/ Len(currentRow) >= 1
                  THEN /\ Len(rows') = Len(rows) + 1
                       /\ SubSeq(rows', 1, Len(rows)) = rows
                       /\ Len(Last(rows')) = Len(currentRow) + 1
                       /\ SubSeq(Last(rows'), 1, Len(currentRow)) = currentRow
                       /\ IsTrimOf(Last(Last(rows')), currentField)
                  ELSE rows' = rows]_vars

\* a text with a comma, then an unmatched quote followed by a comma and a
\* terminator, has returned one row of two cells
C14_Witness ==
  /\ pc = "done"
  /\ insideQuotes
  /\ {COMMA, LF} \subseteq CharsOf(currentField)
  /\ Len(rows) = 1
  /\ Len(result) = 1
  /\ Len(result[1]) = 2

\* the positions of the quote characters of the text
QuotePositions == {k \in 1..Len(csvText) : csvText[k] = QUOTE}

\* the text is one field with one quoted part: two quote characters, and no
\* comma or line terminator outside them
OneQuotedSegment ==
  /\ Cardinality(QuotePositions) = 2
  /\ \A k \in 1..Len(csvText) :
       csvText[k] \in {COMMA, LF, CR} =>
         \E p, q \in QuotePositions : p < k /\ k < q

\* the text without its quote characters
Unquoted == SelectSeq(csvText, LAMBDA c : c # QUOTE)

\* C15: a quote that is not part of an escaped pair toggles quote-mode
\* wherever it stands in the field and copies nothing; the text before it,
\* the quoted part and the text after the closing quote make one cell, and
\* separators in the quoted part do not split it.
C15_QuoteTogglesMidField ==
  /\ [][Scanning /\ Char = QUOTE /\ ~(insideQuotes /\ NextChar = QUOTE)
          => /\ insideQuotes' = ~insideQuotes
             /\ UNCHANGED <<currentField, currentRow, rows>>]_vars
  /\ [](pc = "done" /\ OneQuotedSegment /\ Unquoted # <<>> =>
          /\ Len(rows) = 1
          /\ Len(rows[1]) = 1
          /\ IsTrimOf(rows[1][1], Unquoted)
          /\ result = (IF rows[1][1] = <<>> THEN <<>> ELSE rows))

\* a"," a: text before the quote, a quoted comma and text after the closing
\* quote have returned as the one cell "a,a"
C15_Witness ==
  /\ pc = "done"
  /\ csvText = <<LETTER, QUOTE, COMMA, QUOTE, LETTER>>
  /\ result = << << <<LETTER, COMMA, LETTER>> >> >>

\* C16: the returned table is the rows built by the scan that hold a
\* non-empty cell, each as built and in the order built; nothing else is
\* removed, and empty cells of a kept row stay where they are.
C16_FilterOnlyDropsBlankRows ==
  pc = "done" =>
    /\ Len(result) = Len(KeptRows(rows))
    /\ \A j \in 1..Len(result) : result[j] = rows[KeptRows(rows)[j]]
    /\ \A r \in 1..Len(rows) : ~AllEmpty(rows[r]) => \E j \in 1..Len(result) : KeptRows(rows)[j] = r

\* the scan built a row with an empty and a non-empty cell, which is
\* returned, and a row of one empty cell, which is not
C16_Witness ==
  /\ pc = "done"
  /\ Len(rows) = 2
  /\ Len(result) = 1
  /\ result[1] = << <<>>, <<LETTER>> >>
  /\ \E r \in 1..2 : rows[r] = << <<>> >>

\* ------------------------------------- parseCSV of csv_to_wpblock/script.js
\* the locals of the second copy and its loop index
WP_Fresh ==
  [i |-> 0, rows |-> <<>>, currentRow |-> <<>>, currentField |-> <<>>,
   insideQuotes |-> FALSE]

\* one iteration of the for loop of the second copy
WP_Step(L, text) ==
  LET char == CharAt(text, L.i)
      nextChar == CharAt(text, L.i + 1)
  IN IF char = QUOTE
       THEN IF L.insideQuotes /\ nextChar = QUOTE
              THEN [L EXCEPT !.currentField = Append(@, QUOTE), !.i = @ + 2]
              ELSE [L EXCEPT !.insideQuotes = ~@, !.i = @ + 1]
       ELSE IF char = COMMA /\ ~L.insideQuotes
         THEN [L EXCEPT !.currentRow = Append(@, Trim(L.currentField)),
                        !.currentField = <<>>,
                        !.i = @ + 1]
       ELSE IF (char = LF \/ char = CR) /\ ~L.insideQuotes
         THEN LET j == IF char = CR /\ nextChar = LF THEN L.i + 1 ELSE L.i
              IN IF L.currentField # <<>> \/ Len(L.currentRow) > 0
                   THEN [L EXCEPT !.rows = Append(@, Append(L.currentRow, Trim(L.currentField))),
                                  !.currentRow = <<>>,
                                  !.currentField = <<>>,
                                  !.i = j + 1]
                   ELSE [L EXCEPT !.i = j + 1]
       ELSE [L EXCEPT !.currentField = Append(@, char), !.i = @ + 1]

\* the code after the loop of the second copy
WP_LastRow(L) ==
  IF L.currentField # <<>> \/ Len(L.currentRow) > 0
    THEN [L EXCEPT !.currentRow = Append(@, Trim(L.currentField)),
                   !.rows = Append(@, Append(L.currentRow, Trim(L.currentField)))]
    ELSE L

\* rows.filter(row => row.some(cell => cell !== '')) of the second copy
WP_FilterRows(rs) == SelectSeq(rs, LAMBDA row : \E k \in 1..Len(row) : row[k] # <<>>)

RECURSIVE WP_Scan(_, _)
WP_Scan(L, text) == IF L.i < Len(text) THEN WP_Scan(WP_Step(L, text), text) ELSE L

\* the second copy as a function of its argument
WP_ParseCSV(text) == WP_FilterRows(WP_LastRow(WP_Scan(WP_Fresh, text)).rows)

\* C17: on the same text the two copies of parseCSV start from the same
\* locals, every step of one is the step of the other from the same
\* locals, and they return equal tables.
C17_CopiesAgree ==
  /\ [](pc = "scan" /\ i = 0 => Locals = WP_Fresh)
  /\ [][Scanning => Locals' = WP_Step(Locals, csvText)]_vars
  /\ [][pc = "scan" /\ ~Scanning
          => Locals' = WP_LastRow(Locals) /\ result' = WP_FilterRows(WP_LastRow(Locals).rows)]_vars
  /\ [](pc = "done" => result = WP_ParseCSV(csvText))

\* a text with a "\r\n" pair and a quoted field has returned two rows
C17_Witness ==
  /\ pc = "done"
  /\ QUOTE \in CharsOf(csvText)
  /\ \E k \in 1..(Len(csvText) - 1) : csvText[k] = CR /\ csvText[k + 1] = LF
  /\ Len(result) = 2

\* ============================================================ the renderers
\* most rows of a table handed to a renderer
MaxRows == 3

\* cell texts with characters that markup escapes
RenderCells == {<<"<">>, <<"&", "l", "t", ";">>}

\* rows of one or two cells
RenderRows == {<<c>> : c \in RenderCells} \cup {<<c, d>> : c \in RenderCells, d \in RenderCells}

RenderTables == UNION {[1..n -> RenderRows] : n \in 0..MaxRows}

\* the options objects: {} and objects that set hasHeader and more
RenderOptions ==
  {<<>>}
    \cup {[hasHeader |-> h, hasFixedLayout |-> f, hasStripes |-> s] :
            h \in BOOLEAN, f \in BOOLEAN, s \in BOOLEAN}
    \cup {[hasHeader |-> h, className |-> "custom"] : h \in BOOLEAN}

\* const { name = default } = options
Opt(opts, name, default) == IF name \in DOMAIN opts THEN opts[name] ELSE default

\* document.createElement(tag) with its children appended
Element(tag, children) == [tag |-> tag, children |-> children]

\* document.createElement(tag) with textContent set
TextElement(tag, text) == [tag |-> tag, textContent |-> text]

\* data.slice(start)
Slice(d, start) == SubSeq(d, start + 1, Len(d))

StartIndex_zero(hasHeader) == 0

\* const startIndex = hasHeader ? 1 : 0
StartIndex(hasHeader) == IF hasHeader THEN 1 ELSE 0

\* createTableFromData of csv_to_html/script.js (data is an array in every
\* call, so !data is false)
CreateTableFromData(d, opts) ==
  LET hasHeader == Opt(opts, "hasHeader", TRUE)
      className == Opt(opts, "className", "csv-table")
      headerRow == Element("tr", [k \in 1..Len(d[1]) |-> TextElement("th", d[1][k])])
      thead == Element("thead", <<headerRow>>)
      body == Slice(d, StartIndex(hasHeader))
      tr(row) == Element("tr", [k \in 1..Len(row) |-> TextElement("td", row[k])])
      tbody == Element("tbody", [r \in 1..Len(body) |-> tr(body[r])])
  IN IF Len(d) = 0 THEN Null
     ELSE [tag |-> "table", className |-> className,
           children |-> (IF hasHeader /\ Len(d) > 0 THEN <<thead>> ELSE <<>>) \o <<tbody>>]

\* what innerHTML gives for a text node holding one character
EscapeChar(c) ==
  CASE c = "&" -> <<"&", "a", "m", "p", ";">>
    [] c = "<" -> <<"&", "l", "t", ";">>
    [] c = ">" -> <<"&", "g", "t", ";">>
    [] OTHER -> <<c>>

\* escapeHTML of csv_to_wpblock/script.js
RECURSIVE EscapeHTML(_)
EscapeHTML(text) ==
  IF text = <<>> THEN <<>> ELSE EscapeChar(Head(text)) \o EscapeHTML(Tail(text))

\* the template `<tag>${escapeHTML(cellText)}</tag>` appended for every cell;
\* a tag is one element of the string, a character of text is one element
RECURSIVE CellsMarkup(_, _, _)
CellsMarkup(row, open, close) ==
  IF row = <<>> THEN <<>>
  ELSE <<open>> \o EscapeHTML(Head(row)) \o <<close>> \o CellsMarkup(Tail(row), open, close)

RECURSIVE RowsMarkup(_)
RowsMarkup(rs) ==
  IF rs = <<>> THEN <<>>
  ELSE <<"<tr>">> \o CellsMarkup(Head(rs), "<td>", "</td>") \o <<"</tr>">> \o RowsMarkup(Tail(rs))

\* createWPTableMarkup of csv_to_wpblock/script.js (data is an array in
\* every call, so !data is false)
CreateWPTableMarkup(d, opts) ==
  LET hasHeader == Opt(opts, "hasHeader", FALSE)
      hasFixedLayout == Opt(opts, "hasFixedLayout", TRUE)
      hasStripes == Opt(opts, "hasStripes", FALSE)
      classNames == (IF hasFixedLayout THEN <<"has-fixed-layout">> ELSE <<>>)
                      \o (IF hasStripes THEN <<"has-stripes">> ELSE <<>>)
      joined == IF Len(classNames) = 2 THEN <<classNames[1], " ", classNames[2]>> ELSE classNames
      classAttr == IF Len(classNames) > 0 THEN <<" class=\"">> \o joined \o <<"\"">> ELSE <<>>
      header == IF hasHeader /\ Len(d) > 0
                  THEN <<"<thead><tr>">> \o CellsMarkup(d[1], "<th>", "</th>") \o <<"</tr></thead>">>
                  ELSE <<>>
      startIndex == IF hasHeader THEN 1 ELSE 0
      tableHTML == header \o <<"<tbody>">> \o RowsMarkup(Slice(d, startIndex)) \o <<"</tbody>">>
  IN IF Len(d) = 0 THEN Null
     ELSE <<"<!-- wp:table -->\n<figure class=\"wp-block-table\"><table">>
            \o classAttr \o <<">">> \o tableHTML
            \o <<"</table></figure>\n<!-- /wp:table -->">>

\* a renderer is called on any table and options
InitRender ==
  /\ Start({<<>>})
  /\ data \in RenderTables
  /\ options \in RenderOptions
  /\ rendered = [by |-> "none", value |-> Null]
  /\ SubmitIdle
  /\ CopyIdle

CallCreateTableFromData ==
  /\ rendered.by = "none"
  /\ rendered' = [by |-> "html", value |-> CreateTableFromData(data, options)]
  /\ UNCHANGED <<data, options, parserVars, submitVars, copyVars>>

CallCreateWPTableMarkup ==
  /\ rendered.by = "none"
  /\ rendered' = [by |-> "wp", value |-> CreateWPTableMarkup(data, options)]
  /\ UNCHANGED <<data, options, parserVars, submitVars, copyVars>>

NextRender ==
  \/ CallCreateTableFromData
  \/ CallCreateWPTableMarkup

\* one call of a renderer
SpecRender == InitRender /\ [][NextRender]_vars

\* ---------------------------------------------- reading a rendering back
\* the first position of s that holds x, 0 if none does
IndexOf(s, x) ==
  LET ks == {k \in 1..Len(s) : s[k] = x}
  IN IF ks = {} THEN 0 ELSE CHOOSE k \in ks : \A j \in ks : k <= j

\* the text a browser shows for escaped markup text
RECURSIVE DecodeEntities(_)
DecodeEntities(s) ==
  IF s = <<>> THEN <<>>
  ELSE IF Head(s) = "&" /\ IndexOf(s, ";") > 0
    THEN LET e == IndexOf(s, ";")
             name == SubSeq(s, 2, e - 1)
             c == CASE name = <<"a", "m", "p">> -> <<"&">>
                    [] name = <<"l", "t">> -> <<"<">>
                    [] name = <<"g", "t">> -> <<">">>
                    [] OTHER -> SubSeq(s, 1, e)
         IN c \o DecodeEntities(SubSeq(s, e + 1, Len(s)))
    ELSE <<Head(s)>> \o DecodeEntities(Tail(s))

\* the cell texts of markup of the form open text close open text close ...
RECURSIVE MarkupCells(_, _, _)
MarkupCells(m, open, close) ==
  IF m = <<>> \/ Head(m) # open \/ IndexOf(m, close) = 0 THEN <<>>
  ELSE LET e == IndexOf(m, close)
       IN <<DecodeEntities(SubSeq(m, 2, e - 1))>> \o MarkupCells(SubSeq(m, e + 1, Len(m)), open, close)

\* the rows of markup of the form <tr> cells </tr> <tr> cells </tr> ...
RECURSIVE MarkupRows(_)
MarkupRows(m) ==
  IF m = <<>> \/ Head(m) # "<tr>" \/ IndexOf(m, "</tr>") = 0 THEN <<>>
  ELSE LET e == IndexOf(m, "</tr>")
       IN <<MarkupCells(SubSeq(m, 2, e - 1), "<td>", "</td>")>> \o MarkupRows(SubSeq(m, e + 1, Len(m)))

Between(m, a, b) == SubSeq(m, IndexOf(m, a) + 1, IndexOf(m, b) - 1)

\* the header cells of a rendering, <<>> when it has no header, and whether
\* it has one
WPHasHeader(m) == IndexOf(m, "<thead><tr>") > 0

WPHeader(m) == MarkupCells(Between(m, "<thead><tr>", "</tr></thead>"), "<th>", "</th>")

WPBody(m) == MarkupRows(Between(m, "<tbody>", "</tbody>"))

ChildrenWithTag(e, tag) == SelectSeq(e.children, LAMBDA c : c.tag = tag)

TextsOf(e, tag) ==
  IF \A k \in 1..Len(e.children) : e.children[k].tag = tag
    THEN [k \in 1..Len(e.children) |-> e.children[k].textContent]
    ELSE <<"not all", tag>>

HtmlHasHeader(t) == Len(ChildrenWithTag(t, "thead")) = 1 /\ Head(t.children).tag = "thead"

HtmlHeader(t) == TextsOf(Head(ChildrenWithTag(t, "thead")).children[1], "th")

HtmlBody(t) ==
  LET tbody == Last(t.children)
  IN [r \in 1..Len(tbody.children) |-> TextsOf(tbody.children[r], "td")]

\* what the claim asks of a rendering with the given header and body
RenderedAsClaimed(hasHead, head, body) ==
  LET hasHeader == options.hasHeader
  IN /\ hasHead = hasHeader
     /\ hasHeader => head = data[1]
     /\ body = (IF hasHeader THEN SubSeq(data, 2, Len(data)) ELSE data)

\* C11: each renderer returns null exactly for the empty table; for a
\* non-empty table and hasHeader true the header is the cells of row 0 in
\* order and the body is the rows after it in order; for hasHeader false
\* there is no header and the body is all rows in order.
C11_RendererStructure ==
  /\ rendered.by # "none" => (rendered.value = Null <=> data = <<>>)
  /\ rendered.by = "html" /\ data # <<>> /\ "hasHeader" \in DOMAIN options =>
       LET t == rendered.value
       IN /\ t.tag = "table"
          /\ Last(t.children).tag = "tbody"
          /\ Len(ChildrenWithTag(t, "tbody")) = 1
          /\ Len(t.children) = (IF HtmlHasHeader(t) THEN 2 ELSE 1)
          /\ RenderedAsClaimed(HtmlHasHeader(t),
                               IF HtmlHasHeader(t) THEN HtmlHeader(t) ELSE <<>>,
                               HtmlBody(t))
  /\ rendered.by = "wp" /\ data # <<>> /\ "hasHeader" \in DOMAIN options =>
       LET m == rendered.value
       IN RenderedAsClaimed(WPHasHeader(m), WPHeader(m), WPBody(m))

\* createWPTableMarkup has rendered a three-row table with a header whose
\* rows differ, and a header cell reads "&lt;"
C11_Witness ==
  /\ rendered.by = "wp"
  /\ Len(data) = 3
  /\ "hasHeader" \in DOMAIN options
  /\ options.hasHeader
  /\ data[1] = <<<<"<">>, <<"&", "l", "t", ";">>>>
  /\ data[2] # data[3]
  /\ WPHeader(rendered.value) = data[1]

\* ======================================================= the submit handlers
\* longest text submitted
MaxSubmitLen == 1

\* the pages: one converter each, the required elements found or not, the
\* code / preview element present or not, tableOptions given or not
Pages ==
  [page : {"html", "wp"},
   found : BOOLEAN,
   hasSecondary : BOOLEAN,
   tableOptions : {<<>>, [hasHeader |-> TRUE], [hasHeader |-> FALSE]}]

\* '<p class="csv-error">text</p>' (class wp-error on the wp page)
Message(cfg, text) ==
  [kind |-> "message", class |-> (IF cfg.page = "html" THEN "csv-error" ELSE "wp-error"),
   text |-> text]

\* createCodeOutput: the code block of a source, with its copy button
CodeBlock(cfg, source) ==
  [kind |-> "code", source |-> source,
   button |-> (IF cfg.page = "html" THEN "Copy HTML" ELSE "Copy Block Code")]

\* createPreview
Preview(markup) == [kind |-> "preview", markup |-> markup]

ClearSecondary_keeps(cfg, sec) == sec

\* if (codeOutput) codeOutput.innerHTML = ''   (preview on the wp page)
ClearSecondary(cfg, sec) == IF cfg.hasSecondary THEN NoContent ELSE sec

\* the message branches of both handlers
ShowMessage(cfg, text, sec, called) ==
  [output |-> Message(cfg, text), secondary |-> ClearSecondary(cfg, sec),
   parserCalled |-> called]

\* handleCSVConversion after the elements were found; thrown: an exception
\* leaves the try block
HandleCSV(cfg, text, thrown, sec) ==
  IF Trim(text) = <<>> THEN ShowMessage(cfg, "Please enter CSV data", sec, FALSE)
  ELSE IF thrown THEN ShowMessage(cfg, "Error processing CSV data", sec, TRUE)
  ELSE LET parsedData == ParseCSV(text)
           table == CreateTableFromData(parsedData, cfg.tableOptions)
       IN IF table # Null
            THEN [output |-> [kind |-> "table", table |-> table],
                  secondary |-> (IF cfg.hasSecondary THEN CodeBlock(cfg, table) ELSE sec),
                  parserCalled |-> TRUE]
            ELSE ShowMessage(cfg, "No valid data to display", sec, TRUE)

\* handleWPConversion after the elements were found
HandleWP(cfg, text, thrown, sec) ==
  IF Trim(text) = <<>> THEN ShowMessage(cfg, "Please enter CSV data", sec, FALSE)
  ELSE IF thrown THEN ShowMessage(cfg, "Error processing CSV data", sec, TRUE)
  ELSE LET parsedData == WP_ParseCSV(text)
           markup == CreateWPTableMarkup(parsedData, cfg.tableOptions)
       IN IF markup # Null
            THEN [output |-> CodeBlock(cfg, markup),
                  secondary |-> (IF cfg.hasSecondary THEN Preview(markup) ELSE sec),
                  parserCalled |-> TRUE]
            ELSE ShowMessage(cfg, "No valid data to display", sec, TRUE)

\* a page is loaded and nothing has been submitted
InitSubmit ==
  /\ Start({<<>>})
  /\ RenderIdle
  /\ config \in Pages
  /\ inputValue = <<>>
  /\ output = NoContent
  /\ secondary = NoContent
  /\ parserCalled = FALSE
  /\ shown = FALSE
  /\ CopyIdle

\* what a handler leaves on the page: after is its outcome on the text
Submitted(text, after) ==
  /\ inputValue' = text
  /\ output' = after.output
  /\ secondary' = after.secondary
  /\ parserCalled' = after.parserCalled
  /\ shown' = (shown \/ after.output.kind # "message")

HandleCSVConversion ==
  /\ config.page = "html"
  /\ config.found
  /\ \E text \in TextsUpTo(MaxSubmitLen) : \E thrown \in BOOLEAN :
       Submitted(text, HandleCSV(config, text, thrown, secondary))
  /\ UNCHANGED <<config, parserVars, renderVars, copyVars>>

HandleWPConversion ==
  /\ config.page = "wp"
  /\ config.found
  /\ \E text \in TextsUpTo(MaxSubmitLen) : \E thrown \in BOOLEAN :
       Submitted(text, HandleWP(config, text, thrown, secondary))
  /\ UNCHANGED <<config, parserVars, renderVars, copyVars>>

\* if (!input || !output) return
ElementsNotFound ==
  /\ ~config.found
  /\ UNCHANGED vars

NextSubmit ==
  \/ HandleCSVConversion
  \/ HandleWPConversion
  \/ ElementsNotFound

\* the submits of a page
SpecSubmit == InitSubmit /\ [][NextSubmit]_vars

\* ------------------------------------------------------------------- C18
\* what the page's renderer makes of the page's parse of a text, put in the
\* output as the page puts it; Null when the renderer returns null
ResultOf(cfg, text) ==
  IF cfg.page = "html"
    THEN LET table == CreateTableFromData(ParseCSV(text), cfg.tableOptions)
         IN IF table = Null THEN Null ELSE [kind |-> "table", table |-> table]
    ELSE LET markup == CreateWPTableMarkup(WP_ParseCSV(text), cfg.tableOptions)
         IN IF markup = Null THEN Null ELSE CodeBlock(cfg, markup)

ParsedEmpty(cfg, text) ==
  IF cfg.page = "html" THEN ParseCSV(text) = <<>> ELSE WP_ParseCSV(text) = <<>>

\* C18: after a submit with the input and output elements present, a text
\* that is empty or only whitespace leaves 'Please enter CSV data' in the
\* output and the parser is not called; another text whose parsed table is
\* empty leaves 'No valid data to display'; any other text leaves the
\* rendered result; the only other content the output can hold is the
\* generic error message; and whenever the output holds a message the
\* secondary container (code / preview) is empty.
C18_SubmitOutcomes ==
  output # NoContent =>
    /\ config.found
    /\ IF CharsOf(inputValue) \subseteq Whitespace
         THEN output = Message(config, "Please enter CSV data") /\ ~parserCalled
         ELSE \/ output = Message(config, "Error processing CSV data")
              \/ /\ ParsedEmpty(config, inputValue)
                 /\ output = Message(config, "No valid data to display")
              \/ /\ ~ParsedEmpty(config, inputValue)
                 /\ output.kind # "message"
                 /\ output = ResultOf(config, inputValue)
    /\ output.kind = "message" => secondary = NoContent

\* a result was shown with its code / preview, then a text of only commas
\* is submitted: the message stands alone
C18_Witness ==
  /\ shown
  /\ config.hasSecondary
  /\ inputValue = <<COMMA>>
  /\ parserCalled
  /\ output = Message(config, "No valid data to display")
  /\ secondary = NoContent

\* ========================================================= the copy button
\* most clicks on one copy button
MaxClicks == 3

\* copyButton.textContent as createCodeOutput sets it
InitialLabel(cfg) == IF cfg.page = "html" THEN "Copy HTML" ELSE "Copy Block Code"

\* the callback of the try branch: originalText is the label read after the
\* await
RestoreLabel(originalText) == [text |-> originalText, removeCopied |-> TRUE]

\* the callback of the catch branch: the label is written out in the code
ResetLabel(cfg) == [text |-> InitialLabel(cfg), removeCopied |-> FALSE]

\* createCodeOutput has returned the block of a page and nothing was clicked
InitCopy ==
  /\ Start({<<>>})
  /\ RenderIdle
  /\ config \in [page : {"html", "wp"}]
  /\ inputValue = <<>>
  /\ output = NoContent
  /\ secondary = NoContent
  /\ parserCalled = FALSE
  /\ shown = FALSE
  /\ textContent = InitialLabel(config)
  /\ copied = FALSE
  /\ writes = 0
  /\ timers = <<>>
  /\ clicks = 0

\* a click: the handler calls navigator.clipboard.writeText and waits
Click ==
  /\ clicks < MaxClicks
  /\ clicks' = clicks + 1
  /\ writes' = writes + 1
  /\ UNCHANGED <<textContent, copied, timers, parserVars, renderVars, submitVars>>

\* a write succeeds: the handler goes on after the await
WriteTextResolved ==
  /\ writes > 0
  /\ writes' = writes - 1
  /\ LET originalText == textContent
     IN timers' = Append(timers, RestoreLabel(originalText))
  /\ textContent' = "Copied!"
  /\ copied' = TRUE
  /\ UNCHANGED <<clicks, parserVars, renderVars, submitVars>>

\* a write fails: the catch branch
WriteTextRejected ==
  /\ writes > 0
  /\ writes' = writes - 1
  /\ textContent' = "Copy failed"
  /\ timers' = Append(timers, ResetLabel(config))
  /\ UNCHANGED <<clicks, copied, parserVars, renderVars, submitVars>>

\* 2000 ms after it was set the oldest timer fires; all delays are equal, so
\* the timers fire in the order they were set
TimeoutFires ==
  /\ timers # <<>>
  /\ textContent' = Head(timers).text
  /\ copied' = (copied /\ ~Head(timers).removeCopied)
  /\ timers' = Tail(timers)
  /\ UNCHANGED <<clicks, writes, parserVars, renderVars, submitVars>>

NextCopy ==
  \/ Click
  \/ WriteTextResolved
  \/ WriteTextRejected
  \/ TimeoutFires

\* the clicks on one copy button
SpecCopy == InitCopy /\ [][NextCopy]_vars

\* ------------------------------------------------------------------- C19
\* C19: after any clicks on the copy button, once no clipboard write is
\* outstanding and every pending timer has fired, the label of the button is
\* its initial label and the class 'copied' is absent.
C19_LabelRestored ==
  (clicks > 0 /\ writes = 0 /\ timers = <<>>) =>
    (textContent = InitialLabel(config) /\ ~copied)

====
